---- MODULE Spec2Model ----
(***************************************************************************)
(* Adaptive energy-expenditure estimator of the nutrition backend          *)
(* (app/ai/adaptive_learning.py) and the handlers that write the fields it *)
(* reads.                                                                  *)
(*                                                                         *)
(* Numbers.  Python floats are modelled by exact rationals [n, d] in       *)
(* lowest terms with d > 0; the record with d = 0 is Python's None.        *)
(* Weights are rationals in kg.  The composite confidence involves a       *)
(* square root (np.std) and is kept in fixed point, CScale units per 1.0,  *)
(* rounded down; NaN is a separate value.                                  *)
(***************************************************************************)
EXTENDS Integers, Sequences, FiniteSets, TLC

MaxHistory == 36

VARIABLES user, daily_stats, weight_entries, calc, ret, commits,
          users, runs, meals, reqs

vars == <<user, daily_stats, weight_entries, calc, ret, commits,
          users, runs, meals, reqs>>

\* the state of concurrent requests: the users table, the estimate-and-persist
\* sequences in flight, the meals table and the meal requests in flight
conc == <<users, runs, meals, reqs>>

\* no table of users or meals and no request in flight
Quiet ==
    /\ users = <<>>
    /\ runs = <<>>
    /\ meals = <<>>
    /\ reqs = <<>>

----------------------------------------------------------------------------
(* Exact rational arithmetic *)

Abs(i) == IF i < 0 THEN -i ELSE i

RECURSIVE GCD(_, _)
GCD(a, b) == IF b = 0 THEN a ELSE GCD(b, a % b)

None == [n |-> 0, d |-> 0]

Rat(num, den) ==
    LET g == GCD(Abs(num), den)
    IN  [n |-> num \div g, d |-> den \div g]

Num(i) == [n |-> i, d |-> 1]

IsNone(q) == q.d = 0

\* Python truthiness of an optional number: None and 0 are falsy
Truthy(q) == q.d # 0 /\ q.n # 0

RNeg(a) == [n |-> -a.n, d |-> a.d]

RAdd(a, b) == Rat(a.n * b.d + b.n * a.d, a.d * b.d)

RSub(a, b) == RAdd(a, RNeg(b))

RMul(a, b) ==
    LET g1 == GCD(Abs(a.n), b.d)
        g2 == GCD(Abs(b.n), a.d)
    IN  Rat((a.n \div g1) * (b.n \div g2), (a.d \div g2) * (b.d \div g1))

\* a / b for b # 0
RDiv(a, b) ==
    RMul(a, IF b.n < 0 THEN [n |-> -b.d, d |-> -b.n] ELSE [n |-> b.d, d |-> b.n])

RFloor(a) == a.n \div a.d

\* a < b, comparing integer parts first and fractional parts after
RLt(a, b) ==
    LET fa == RFloor(a)
        fb == RFloor(b)
    IN  \/ fa < fb
        \/ /\ fa = fb
           /\ (a.n - fa * a.d) * b.d < (b.n - fb * b.d) * a.d

RLe(a, b) == ~RLt(b, a)

RAbs(a) == [n |-> Abs(a.n), d |-> a.d]

RMax(a, b) == IF RLt(a, b) THEN b ELSE a

RMin(a, b) == IF RLt(b, a) THEN b ELSE a

\* Python round(x): nearest integer, ties to the even one
Round(a) ==
    LET f == RFloor(a)
        r == a.n - f * a.d
    IN  IF 2 * r < a.d THEN f
        ELSE IF 2 * r > a.d THEN f + 1
        ELSE IF f % 2 = 0 THEN f ELSE f + 1

\* floor of the square root of a natural number
RECURSIVE SqrtBetween(_, _, _)
SqrtBetween(x, lo, hi) ==
    IF lo >= hi THEN lo
    ELSE LET mid == (lo + hi + 1) \div 2
         IN  IF mid * mid <= x THEN SqrtBetween(x, mid, hi)
             ELSE SqrtBetween(x, lo, mid - 1)

ISqrt(x) == SqrtBetween(x, 0, IF x < 46340 THEN x ELSE 46340)

\* sequence helpers: Python slices seq[-k:] and sums
LastN(s, k) == IF Len(s) <= k THEN s ELSE SubSeq(s, Len(s) - k + 1, Len(s))

RECURSIVE SumSeq(_)
SumSeq(s) == IF s = <<>> THEN 0 ELSE Head(s) + SumSeq(Tail(s))

RECURSIVE RSumSeq(_)
RSumSeq(s) == IF s = <<>> THEN Num(0) ELSE RAdd(Head(s), RSumSeq(Tail(s)))

Contains(s, e) == \E i \in 1..Len(s) : s[i] = e

----------------------------------------------------------------------------
(* AdaptiveLearningEngine.__init__ *)

min_data_days == 14

\* confidence values: fixed point, CScale units per 1.0
CScale == 100 * 100

Conf(v) == [nan |-> FALSE, v |-> v]

NaN == [nan |-> TRUE, v |-> 0]

\* mutant: a threshold of 0.3
confidence_threshold_low == Conf((3 * CScale) \div 10)

\* self.confidence_threshold = 0.7
confidence_threshold == Conf((7 * CScale) \div 10)

\* Python's c < t on floats: false when either side is NaN
ConfLt(c, t) == ~c.nan /\ ~t.nan /\ c.v < t.v

----------------------------------------------------------------------------
(* Metabolic baseline *)

\* mutant: the sex constants are swapped
calculate_bmr_swapped(u, weight) ==
    IF ~Truthy(u.age) \/ ~Truthy(u.height) \/ u.gender \in {"None", ""}
    THEN Num(1800)
    ELSE LET base == RSub(RAdd(RMul(Num(10), weight), RMul(Rat(25, 4), u.height)),
                          RMul(Num(5), u.age))
         IN  IF u.gender = "male" THEN RSub(base, Num(161))
             ELSE RAdd(base, Num(5))

calculate_bmr(u, weight) ==
    IF ~Truthy(u.age) \/ ~Truthy(u.height) \/ u.gender \in {"None", ""}
    THEN Num(1800)
    ELSE LET base == RSub(RAdd(RMul(Num(10), weight), RMul(Rat(25, 4), u.height)),
                          RMul(Num(5), u.age))
         IN  IF u.gender = "male" THEN RAdd(base, Num(5))
             ELSE RSub(base, Num(161))

get_activity_multiplier(activity_level) ==
    CASE activity_level = "sedentary"   -> Rat(12, 10)
      [] activity_level = "light"       -> Rat(1375, 1000)
      [] activity_level = "moderate"    -> Rat(155, 100)
      [] activity_level = "active"      -> Rat(1725, 1000)
      [] activity_level = "very_active" -> Rat(19, 10)
      [] OTHER                          -> Rat(155, 100)

calculate_traditional_tdee(u, current_weight) ==
    LET bmr == calculate_bmr(u, current_weight)
        activity_multiplier ==
            get_activity_multiplier(IF u.activity_level \in {"None", ""}
                                    THEN "moderate" ELSE u.activity_level)
    IN  RMul(bmr, activity_multiplier)

----------------------------------------------------------------------------
(* Weight trend estimator *)

\* df.sort_values("date"): insertion of e into a sequence sorted by date
RECURSIVE InsertByDate(_, _)
InsertByDate(s, e) ==
    IF s = <<>> THEN <<e>>
    ELSE IF e.date < Head(s).date THEN <<e>> \o s
    ELSE <<Head(s)>> \o InsertByDate(Tail(s), e)

RECURSIVE SortByDate(_)
SortByDate(s) ==
    IF s = <<>> THEN <<>>
    ELSE InsertByDate(SortByDate(SubSeq(s, 1, Len(s) - 1)), s[Len(s)])

\* the window analyze_weight_trend fits: entries[-days:], sorted by date
\* (entries[-0:] is the whole list)
TrendWindow(entries, days) ==
    SortByDate(IF days = 0 THEN entries ELSE LastN(entries, days))

\* np.polyfit(x, y, 1)[0] for x = 0 .. m-1: the least-squares slope
\* (m*Sum(x*y) - Sum(x)*Sum(y)) / (m*Sum(x*x) - Sum(x)^2); y is taken
\* relative to its first value, which leaves slope and correlation unchanged
\* mutant: x is not centred in the slope's denominator
RegressionUncentred(df) ==
    LET m   == Len(df)
        y   == [i \in 1..m |-> RSub(df[i].weight, df[1].weight)]
        sx  == SumSeq([i \in 1..m |-> i - 1])
        sxx == SumSeq([i \in 1..m |-> (i - 1) * (i - 1)])
        sy  == RSumSeq(y)
        sxy == RSumSeq([i \in 1..m |-> RMul(Num(i - 1), y[i])])
        syy == RSumSeq([i \in 1..m |-> RMul(y[i], y[i])])
    IN  [cxy |-> RSub(RMul(Num(m), sxy), RMul(Num(sx), sy)),
         cxx |-> Num(m * sxx),
         cyy |-> RSub(RMul(Num(m), syy), RMul(sy, sy))]

Regression(df) ==
    LET m   == Len(df)
        y   == [i \in 1..m |-> RSub(df[i].weight, df[1].weight)]
        sx  == SumSeq([i \in 1..m |-> i - 1])
        sxx == SumSeq([i \in 1..m |-> (i - 1) * (i - 1)])
        sy  == RSumSeq(y)
        sxy == RSumSeq([i \in 1..m |-> RMul(Num(i - 1), y[i])])
        syy == RSumSeq([i \in 1..m |-> RMul(y[i], y[i])])
    IN  [cxy |-> RSub(RMul(Num(m), sxy), RMul(Num(sx), sy)),
         cxx |-> Num(m * sxx - sx * sx),
         cyy |-> RSub(RMul(Num(m), syy), RMul(sy, sy))]

\* the default of the parameter days
trend_days == 14

\* mutant: a single observation is reported as a perfect fit
analyze_weight_trend_single(entries, days) ==
    IF Len(entries) < 2
    THEN [trend |-> Num(0),
          confidence |-> [nan |-> FALSE, q |-> Num(Len(entries))]]
    ELSE LET df == TrendWindow(entries, days)
         IN  IF Len(df) < 2
             THEN [trend |-> Num(0), confidence |-> [nan |-> FALSE, q |-> Num(0)]]
             ELSE LET r     == Regression(df)
                      slope == RDiv(r.cxy, r.cxx)
                  IN  [trend |-> RMul(slope, Num(7)),
                       confidence |->
                           IF r.cyy.n = 0
                           THEN [nan |-> TRUE, q |-> Num(0)]
                           ELSE [nan |-> FALSE,
                                 q |-> RMul(slope, RDiv(r.cxy, r.cyy))]]

analyze_weight_trend(entries, days) ==
    IF Len(entries) < 2
    THEN [trend |-> Num(0), confidence |-> [nan |-> FALSE, q |-> Num(0)]]
    ELSE LET df == TrendWindow(entries, days)
         IN  IF Len(df) < 2
             THEN [trend |-> Num(0), confidence |-> [nan |-> FALSE, q |-> Num(0)]]
             ELSE LET r     == Regression(df)
                      slope == RDiv(r.cxy, r.cxx)
                  IN  [trend |-> RMul(slope, Num(7)),
                       \* abs(np.corrcoef(x, y)[0, 1]) ** 2; a constant y
                       \* divides 0 by 0 and yields NaN
                       confidence |->
                           IF r.cyy.n = 0
                           THEN [nan |-> TRUE, q |-> Num(0)]
                           ELSE [nan |-> FALSE,
                                 q |-> RMul(slope, RDiv(r.cxy, r.cyy))]]

----------------------------------------------------------------------------
(* Adaptive TDEE controller *)

\* mutant: a window of 31 records
recent_window_wide == 30 + 1

\* daily_stats[-30:] and weight_entries[-30:]
recent_window == 30

\* mutant: the energy of a pound of fat in place of a kilogram
calories_per_pound == 7 * 500

\* "1 kg de grasa = ~7700 calorias"
calories_per_kg == 7700

\* weight used when there is no weight entry
default_weight_heavy == 70 + 5

default_weight == 70

TDEECalculation(tdee, conf, method, factors, reason) ==
    [estimated_tdee |-> tdee, confidence |-> conf, method |-> method,
     factors |-> factors, adjustment_reason |-> reason]

\* mutant: unlogged days (0 kcal) counted as valid
IsValidDayOrZero(stat) == stat.consumed_calories >= 0

IsValidDay(stat) == stat.consumed_calories > 0

\* lines 136-151: the energy balance over the valid days
EnergyBalance(valid_days, weight_trend) ==
    LET days_analyzed == Len(valid_days)
        avg_calories ==
            Rat(SumSeq([i \in 1..days_analyzed |-> valid_days[i].consumed_calories]),
                days_analyzed)
        weight_change_total == RMul(weight_trend, Rat(days_analyzed, 7))
        caloric_adjustment ==
            RDiv(RMul(weight_change_total, Num(calories_per_kg)), Num(days_analyzed))
    IN  [avg_calories |-> avg_calories,
         caloric_adjustment |-> caloric_adjustment,
         estimated_tdee |-> RAdd(avg_calories, caloric_adjustment)]

\* calorie_std / avg_calories in fixed point.  np.std is the population
\* standard deviation, so std / mean = sqrt(n*Sum(c^2) - Sum(c)^2) / Sum(c);
\* the calories are taken relative to the first one under the root, which
\* leaves the variance unchanged
CalorieCV(valid_days) ==
    LET n     == Len(valid_days)
        total == SumSeq([i \in 1..n |-> valid_days[i].consumed_calories])
        dev   == [i \in 1..n |->
                    valid_days[i].consumed_calories - valid_days[1].consumed_calories]
        sd    == SumSeq(dev)
        sdd   == SumSeq([i \in 1..n |-> dev[i] * dev[i]])
    IN  IF total > 0 THEN (ISqrt(n * sdd - sd * sd) * CScale) \div total
        ELSE CScale

\* mutant: logging and stability weighted 0.5 each in place of 0.3
TotalConfidenceHeavy(weight_confidence, valid_days, recent_stats) ==
    IF weight_confidence.nan THEN NaN
    ELSE LET wc        == RFloor(RMul(weight_confidence.q, Num(CScale)))
             logging   == (Len(valid_days) * CScale) \div Len(recent_stats)
             cv        == CalorieCV(valid_days)
             stability == IF CScale - cv > 0 THEN CScale - cv ELSE 0
             total     == (4 * wc + 5 * logging + 5 * stability) \div 10
         IN  Conf(IF total < CScale THEN total ELSE CScale)

\* lines 153-169 and 202: min(sum(confidence_factors), 1.0)
TotalConfidence(weight_confidence, valid_days, recent_stats) ==
    IF weight_confidence.nan THEN NaN
    ELSE LET wc        == RFloor(RMul(weight_confidence.q, Num(CScale)))
             logging   == (Len(valid_days) * CScale) \div Len(recent_stats)
             cv        == CalorieCV(valid_days)
             stability == IF CScale - cv > 0 THEN CScale - cv ELSE 0
             total     == (4 * wc + 3 * logging + 3 * stability) \div 10
         IN  Conf(IF total < CScale THEN total ELSE CScale)

\* lines 171-180
Factors(weight_confidence, weight_trend, valid_days, recent_stats) ==
    LET f1 == IF ~weight_confidence.nan /\ RLt(Rat(7, 10), weight_confidence.q)
              THEN <<"strong_weight_trend">> ELSE <<>>
        f2 == IF 10 * Len(valid_days) > 8 * Len(recent_stats)
              THEN <<"consistent_logging">> ELSE <<>>
        f3 == IF RLt(RAbs(weight_trend), Rat(1, 10))
              THEN <<"stable_weight">> ELSE <<>>
        f4 == IF 10 * CalorieCV(valid_days) < 2 * CScale
              THEN <<"consistent_intake">> ELSE <<>>
    IN  f1 \o f2 \o f3 \o f4

\* lines 182-189
AdjustmentReason(weight_trend) ==
    IF RLt(Rat(2, 10), RAbs(weight_trend))
    THEN IF weight_trend.n > 0 THEN "Ganando" ELSE "Perdiendo"
    ELSE "Peso estable"

\* lines 191-198: limit the change against the persisted TDEE
SmoothTwenty(u, estimated_tdee) ==
    IF Truthy(u.estimated_tdee)
    THEN LET max_change == RMul(u.estimated_tdee, Rat(20, 100))
             tdee_diff  == RSub(estimated_tdee, u.estimated_tdee)
         IN  IF RLt(max_change, RAbs(tdee_diff))
             THEN [tdee |-> RAdd(u.estimated_tdee,
                                 IF tdee_diff.n > 0 THEN max_change
                                 ELSE RNeg(max_change)),
                   factors |-> <<"smoothed_change">>]
             ELSE [tdee |-> estimated_tdee, factors |-> <<>>]
    ELSE [tdee |-> estimated_tdee, factors |-> <<>>]

Smooth(u, estimated_tdee) ==
    IF Truthy(u.estimated_tdee)
    THEN LET max_change == RMul(u.estimated_tdee, Rat(15, 100))
             tdee_diff  == RSub(estimated_tdee, u.estimated_tdee)
         IN  IF RLt(max_change, RAbs(tdee_diff))
             THEN [tdee |-> RAdd(u.estimated_tdee,
                                 IF tdee_diff.n > 0 THEN max_change
                                 ELSE RNeg(max_change)),
                   factors |-> <<"smoothed_change">>]
             ELSE [tdee |-> estimated_tdee, factors |-> <<>>]
    ELSE [tdee |-> estimated_tdee, factors |-> <<>>]

calculate_adaptive_tdee(u, stats, weights) ==
    IF Len(stats) < min_data_days
    THEN LET current_weight == IF weights # <<>> THEN weights[Len(weights)].weight
                               ELSE Num(default_weight)
         IN  TDEECalculation(calculate_traditional_tdee(u, current_weight),
                             Conf((3 * CScale) \div 10), "traditional",
                             <<"insufficient_data">>, "Datos insuficientes")
    ELSE LET recent_stats   == LastN(stats, recent_window)
             recent_weights == LastN(weights, recent_window)
             wt             == analyze_weight_trend(recent_weights, trend_days)
             valid_days     == SelectSeq(recent_stats, IsValidDay)
         IN  IF Len(valid_days) < min_data_days
             THEN LET current_weight ==
                          IF recent_weights # <<>>
                          THEN recent_weights[Len(recent_weights)].weight
                          ELSE Num(default_weight)
                  IN  TDEECalculation(calculate_traditional_tdee(u, current_weight),
                                      Conf((4 * CScale) \div 10), "traditional_fallback",
                                      <<"insufficient_valid_days">>, "Pocos dias")
             ELSE LET eb == EnergyBalance(valid_days, wt.trend)
                      sm == Smooth(u, eb.estimated_tdee)
                  IN  TDEECalculation(
                          Num(Round(sm.tdee)),
                          TotalConfidence(wt.confidence, valid_days, recent_stats),
                          "adaptive",
                          Factors(wt.confidence, wt.trend, valid_days, recent_stats)
                              \o sm.factors,
                          AdjustmentReason(wt.trend))

----------------------------------------------------------------------------
(* Goal translator and update gate *)

\* mutant: the surpluses of gain_weight and gain_muscle exchanged
goal_adjustments_swapped(goal) ==
    CASE goal = "lose_weight" -> -500
      [] goal = "maintain"    -> 0
      [] goal = "gain_weight" -> 200
      [] goal = "gain_muscle" -> 300
      [] OTHER                -> 0

goal_adjustments(goal) ==
    CASE goal = "lose_weight" -> -500
      [] goal = "maintain"    -> 0
      [] goal = "gain_weight" -> 300
      [] goal = "gain_muscle" -> 200
      [] OTHER                -> 0

\* the floor of the safety limits
floor_calories == 1200

\* mutant: the lower limit without its 1200 kcal floor
SafetyLimitsNoFloor(estimated_tdee) ==
    [min_calories |-> RMul(estimated_tdee, Rat(7, 10)),
     max_calories |-> RMul(estimated_tdee, Rat(13, 10))]

\* lines 221-223: (min_calories, max_calories)
SafetyLimits(estimated_tdee) ==
    [min_calories |-> RMax(Num(floor_calories), RMul(estimated_tdee, Rat(7, 10))),
     max_calories |-> RMul(estimated_tdee, Rat(13, 10))]

calculate_adaptive_calories(u, estimated_tdee) ==
    LET adjustment        == goal_adjustments(u.goal)
        adaptive_calories == RAdd(estimated_tdee, Num(adjustment))
        lim               == SafetyLimits(estimated_tdee)
    IN  Num(Round(RMax(lim.min_calories, RMin(adaptive_calories, lim.max_calories))))

\* mutant: a change of exactly 5% accepted (>= in place of >)
should_update_goals_inclusive(u, new_tdee, confidence) ==
    IF ConfLt(confidence, Conf((7 * CScale) \div 10)) THEN FALSE
    ELSE IF ~Truthy(u.estimated_tdee) THEN TRUE
    ELSE RLe(Rat(5, 100),
             RDiv(RAbs(RSub(new_tdee, u.estimated_tdee)), u.estimated_tdee))

should_update_goals(u, new_tdee, confidence) ==
    IF ConfLt(confidence, confidence_threshold) THEN FALSE
    ELSE IF ~Truthy(u.estimated_tdee) THEN TRUE
    ELSE LET tdee_diff_pct ==
                 RDiv(RAbs(RSub(new_tdee, u.estimated_tdee)), u.estimated_tdee)
         IN  RLt(Rat(5, 100), tdee_diff_pct)

\* the 50 kcal band of line 262
target_band == 50

NoUpdate ==
    [some |-> FALSE, new_tdee |-> None, new_target_calories |-> None,
     confidence |-> Conf(0), adjustment_reason |-> ""]

\* AdaptiveGoalsUpdate(...); effective_date is the day of the call
AdaptiveGoalsUpdate(new_tdee, new_target_calories, confidence, reason) ==
    [some |-> TRUE, new_tdee |-> new_tdee,
     new_target_calories |-> new_target_calories,
     confidence |-> confidence, adjustment_reason |-> reason]

\* lines 256-263: the writes to the user, in the order of the code
PersistGoals(u, tdee_calc, new_calories) ==
    LET u1 == [u EXCEPT !.estimated_tdee    = tdee_calc.estimated_tdee,
                        !.tdee_confidence   = tdee_calc.confidence,
                        !.adaptive_calories = new_calories]
        adaptive_or_0 == IF Truthy(u1.adaptive_calories) THEN u1.adaptive_calories
                         ELSE Num(0)
    IN  IF \/ ~Truthy(u1.target_calories)
           \/ RLt(RAbs(RSub(u1.target_calories, adaptive_or_0)), Num(target_band))
        THEN [u1 EXCEPT !.target_calories = new_calories]
        ELSE u1

\* mutant: the confidence written before the gate is asked
update_user_goals_early_write(u, tdee_calc) ==
    LET u0 == [u EXCEPT !.tdee_confidence = tdee_calc.confidence]
    IN  IF ~should_update_goals(u, tdee_calc.estimated_tdee, tdee_calc.confidence)
        THEN [user |-> u0, commits |-> 0, value |-> NoUpdate]
        ELSE LET new_calories ==
                     calculate_adaptive_calories(u, tdee_calc.estimated_tdee)
             IN  [user |-> PersistGoals(u, tdee_calc, new_calories),
                  commits |-> 1,
                  value |-> AdaptiveGoalsUpdate(tdee_calc.estimated_tdee, new_calories,
                                                tdee_calc.confidence,
                                                tdee_calc.adjustment_reason)]

\* the user after the call, the number of db.commit() calls, the value returned
update_user_goals(u, tdee_calc) ==
    IF ~should_update_goals(u, tdee_calc.estimated_tdee, tdee_calc.confidence)
    THEN [user |-> u, commits |-> 0, value |-> NoUpdate]
    ELSE LET new_calories == calculate_adaptive_calories(u, tdee_calc.estimated_tdee)
         IN  [user |-> PersistGoals(u, tdee_calc, new_calories),
              commits |-> 1,
              value |-> AdaptiveGoalsUpdate(tdee_calc.estimated_tdee, new_calories,
                                            tdee_calc.confidence,
                                            tdee_calc.adjustment_reason)]

----------------------------------------------------------------------------
(* State: one user row, the user's intake and weight histories as the      *)
(* caller hands them over (ordered by date), the last TDEECalculation, the *)
(* last call's result and the number of db.commit() calls it made.         *)

\* User(): nullable columns are None, tdee_confidence defaults to 0.0
NewUser(age, gender, height, activity_level, goal) ==
    [age |-> age, gender |-> gender, height |-> height,
     activity_level |-> activity_level, goal |-> goal,
     target_calories |-> None, estimated_tdee |-> None,
     tdee_confidence |-> Conf(0), adaptive_calories |-> None]

NoCalc == TDEECalculation(None, Conf(0), "none", <<>>, "")

NoRet ==
    [op |-> "none", new_tdee |-> None, confidence |-> Conf(0),
     accepted |-> FALSE, calories |-> None, update |-> NoUpdate,
     weight |-> None, days |-> 0, value |-> None,
     trend |-> [trend |-> None, confidence |-> [nan |-> FALSE, q |-> None]]]

\* bounds of the histories
MaxRun == 16
MaxWeights == 16

\* an intake history: nA days of cA kcal, nZ unlogged days, nB days of cB kcal
Intake(cA, nA, nZ, cB, nB) ==
    [i \in 1..(nA + nZ + nB) |->
        [date |-> i,
         consumed_calories |-> IF i <= nA THEN cA
                               ELSE IF i <= nA + nZ THEN 0 ELSE cB]]

\* a weight history of len entries on consecutive dates: from 80 kg, step kg
\* per entry, zig added to every second entry; with old_flat the entries
\* before the last trend_days are all 80 kg
Weights(len, step, zig, old_flat) ==
    [i \in 1..len |->
        [date |-> i,
         weight |-> IF old_flat /\ i <= len - trend_days THEN Num(80)
                    ELSE RAdd(RAdd(Num(80), RMul(Num(i - 1), step)),
                              IF i % 2 = 0 THEN zig ELSE Num(0))]]

IntakeHistories ==
    { Intake(cA, nA, nZ, cB, nB) :
        cA \in {2000, 2200}, nA \in {0, 10, 13, 14}, nZ \in {0, 1, 17},
        cB \in {2200, 2400}, nB \in {0, 10, MaxRun} }
        \cup {Intake(2500, 14, 0, 2500, 0)}

WeightHistories ==
    { Weights(len, step, zig, old_flat) :
        len \in {0, 1, 2, 14, MaxWeights},
        step \in {Rat(-1, 10), Rat(-1, 14), Num(0), Rat(1, 14)},
        zig \in {Num(0), Rat(3, 10)},
        old_flat \in BOOLEAN }

Profiles ==
    { NewUser(Num(30), "male", Num(175), "moderate", "maintain"),
      NewUser(None, "female", Num(160), "None", "lose_weight") }

PrevTdees == {None, Num(0), Num(2000), Num(2004), Num(3000)}

TypeOK ==
    /\ calc.method \in {"none", "traditional", "traditional_fallback", "adaptive"}
    /\ commits \in {0, 1}
    /\ ret.op \in {"none", "calculate_adaptive_tdee", "update_user_goals",
                   "should_update_goals", "calculate_adaptive_calories",
                   "setup_goals", "update_profile", "calculate_bmr",
                   "calculate_traditional_tdee", "analyze_weight_trend"}

----------------------------------------------------------------------------
(* Operations *)

\* mutant: the calculation stores its result on the user
CalculateAdaptiveTdeePersisting ==
    /\ calc' = calculate_adaptive_tdee(user, daily_stats, weight_entries)
    /\ ret' = [NoRet EXCEPT !.op = "calculate_adaptive_tdee"]
    /\ commits' = 0
    /\ user' = [user EXCEPT !.estimated_tdee = calc'.estimated_tdee]
    /\ UNCHANGED <<daily_stats, weight_entries>>
    /\ UNCHANGED conc

CalculateAdaptiveTdee ==
    /\ calc' = calculate_adaptive_tdee(user, daily_stats, weight_entries)
    /\ ret' = [NoRet EXCEPT !.op = "calculate_adaptive_tdee"]
    /\ commits' = 0
    /\ UNCHANGED <<user, daily_stats, weight_entries>>
    /\ UNCHANGED conc

\* update_user_goals(db, user, tdee_calc) on the last calculation
UpdateUserGoals ==
    /\ calc.method # "none"
    /\ LET r == update_user_goals(user, calc)
       IN  /\ user' = r.user
           /\ commits' = r.commits
           /\ ret' = [NoRet EXCEPT !.op = "update_user_goals",
                                   !.new_tdee = calc.estimated_tdee,
                                   !.confidence = calc.confidence,
                                   !.accepted = r.value.some,
                                   !.update = r.value]
    /\ UNCHANGED <<daily_stats, weight_entries, calc>>
    /\ UNCHANGED conc

ShouldUpdateGoals(new_tdee, confidence) ==
    /\ ret' = [NoRet EXCEPT !.op = "should_update_goals",
                            !.new_tdee = new_tdee,
                            !.confidence = confidence,
                            !.accepted = should_update_goals(user, new_tdee, confidence)]
    /\ commits' = 0
    /\ UNCHANGED <<user, daily_stats, weight_entries, calc>>
    /\ UNCHANGED conc

CalculateAdaptiveCalories(estimated_tdee) ==
    /\ ret' = [NoRet EXCEPT !.op = "calculate_adaptive_calories",
                            !.new_tdee = estimated_tdee,
                            !.calories = calculate_adaptive_calories(user, estimated_tdee)]
    /\ commits' = 0
    /\ UNCHANGED <<user, daily_stats, weight_entries, calc>>
    /\ UNCHANGED conc

CalculateBmr(weight) ==
    /\ ret' = [NoRet EXCEPT !.op = "calculate_bmr",
                            !.weight = weight,
                            !.value = calculate_bmr(user, weight)]
    /\ commits' = 0
    /\ UNCHANGED <<user, daily_stats, weight_entries, calc>>
    /\ UNCHANGED conc

CalculateTraditionalTdee(current_weight) ==
    /\ ret' = [NoRet EXCEPT !.op = "calculate_traditional_tdee",
                            !.weight = current_weight,
                            !.value = calculate_traditional_tdee(user, current_weight)]
    /\ commits' = 0
    /\ UNCHANGED <<user, daily_stats, weight_entries, calc>>
    /\ UNCHANGED conc

\* analyze_weight_trend(weight_entries, days) on the user's weight history
AnalyzeWeightTrend(days) ==
    /\ ret' = [NoRet EXCEPT !.op = "analyze_weight_trend",
                            !.days = days,
                            !.trend = analyze_weight_trend(weight_entries, days)]
    /\ commits' = 0
    /\ UNCHANGED <<user, daily_stats, weight_entries, calc>>
    /\ UNCHANGED conc

\* The histories handed to the engine at a later date: 14 more daily
\* records of consumed_calories kcal and 14 more weights, each step kg from
\* the one before, appended in date order
LogPeriod(consumed_calories, step) ==
    /\ Len(daily_stats) + 14 <= MaxHistory
    /\ weight_entries # <<>>
    /\ daily_stats' = daily_stats \o
           [i \in 1..14 |-> [date |-> Len(daily_stats) + i,
                             consumed_calories |-> consumed_calories]]
    /\ weight_entries' = weight_entries \o
           [i \in 1..14 |->
               [date |-> Len(weight_entries) + i,
                weight |-> RAdd(weight_entries[Len(weight_entries)].weight,
                                RMul(Num(i), step))]]
    /\ ret' = NoRet
    /\ commits' = 0
    /\ UNCHANGED <<user, calc>>
    /\ UNCHANGED conc

\* POST /setup-goals (the macro targets are not modelled)
SetupGoals(goal, custom_calories) ==
    /\ LET u1 == [user EXCEPT !.goal = goal]
           u2 == IF Truthy(custom_calories)
                 THEN [u1 EXCEPT !.target_calories = custom_calories] ELSE u1
       IN  user' =
             IF ~Truthy(custom_calories) /\ Truthy(u2.height) /\ Truthy(u2.age)
             THEN LET traditional_tdee ==
                          calculate_traditional_tdee(u2, Num(default_weight))
                      adaptive_calories ==
                          calculate_adaptive_calories(u2, traditional_tdee)
                  IN  [u2 EXCEPT !.estimated_tdee = traditional_tdee,
                                 !.target_calories = adaptive_calories,
                                 !.adaptive_calories = adaptive_calories]
             ELSE u2
    /\ commits' = 1
    /\ ret' = [NoRet EXCEPT !.op = "setup_goals"]
    /\ UNCHANGED <<daily_stats, weight_entries, calc>>
    /\ UNCHANGED conc

\* PUT /me with a body that sets target_calories
UpdateProfile(target_calories) ==
    /\ user' = [user EXCEPT !.target_calories = target_calories]
    /\ commits' = 1
    /\ ret' = [NoRet EXCEPT !.op = "update_profile"]
    /\ UNCHANGED <<daily_stats, weight_entries, calc>>
    /\ UNCHANGED conc

----------------------------------------------------------------------------
(* Concurrent estimate-and-persist sequences.  Each sequence works on its  *)
(* own copy of the user row, read when it starts; db.commit() writes the   *)
(* columns the sequence assigned a new value to.  Both users have the      *)
(* histories daily_stats and weight_entries.                               *)

Procs == {1, 2}

UserIds == {1, 2}

NoWrite ==
    [some |-> FALSE, overlapped |-> FALSE, loaded |-> NewUser(None, "None", None, "None", "None"),
     before |-> NewUser(None, "None", None, "None", "None"),
     after |-> NewUser(None, "None", None, "None", "None")]

\* a sequence that has not started
IdleRun(uid) ==
    [uid |-> uid, phase |-> "idle", user |-> NewUser(None, "None", None, "None", "None"),
     calc |-> NoCalc, overlapped |-> FALSE, wrote |-> NoWrite]

\* db.commit() of a modified copy: the UPDATE sets the columns whose value
\* differs from the loaded one
CommitRow(row, loaded, modified) ==
    [c \in DOMAIN row |-> IF modified[c] # loaded[c] THEN modified[c] ELSE row[c]]

\* mutant: the estimate is computed without the persisted TDEE
EstimateUnsmoothed(p) ==
    /\ runs[p].phase = "idle"
    /\ LET u    == users[runs[p].uid]
           busy == {q \in Procs \ {p} :
                      runs[q].uid = runs[p].uid /\ runs[q].phase = "estimated"}
       IN  runs' = [q \in Procs |->
                      IF q = p
                      THEN [runs[p] EXCEPT
                              !.phase = "estimated",
                              !.user = u,
                              !.calc = calculate_adaptive_tdee(
                                           [u EXCEPT !.estimated_tdee = None],
                                           daily_stats, weight_entries),
                              !.overlapped = busy # {}]
                      ELSE IF q \in busy THEN [runs[q] EXCEPT !.overlapped = TRUE]
                      ELSE runs[q]]
    /\ UNCHANGED <<user, daily_stats, weight_entries, calc, ret, commits>>
    /\ UNCHANGED <<users, meals, reqs>>

\* the sequence of process p starts: it reads its user and calls
\* calculate_adaptive_tdee; overlapped records that another sequence of the
\* same user is in flight
Estimate(p) ==
    /\ runs[p].phase = "idle"
    /\ LET u    == users[runs[p].uid]
           busy == {q \in Procs \ {p} :
                      runs[q].uid = runs[p].uid /\ runs[q].phase = "estimated"}
       IN  runs' = [q \in Procs |->
                      IF q = p
                      THEN [runs[p] EXCEPT
                              !.phase = "estimated",
                              !.user = u,
                              !.calc = calculate_adaptive_tdee(u, daily_stats,
                                                               weight_entries),
                              !.overlapped = busy # {}]
                      ELSE IF q \in busy THEN [runs[q] EXCEPT !.overlapped = TRUE]
                      ELSE runs[q]]
    /\ UNCHANGED <<user, daily_stats, weight_entries, calc, ret, commits>>
    /\ UNCHANGED <<users, meals, reqs>>

\* mutant: the commit writes the row of user 1 whoever the sequence is for
PersistFirstUser(p) ==
    /\ runs[p].phase = "estimated"
    /\ LET r   == update_user_goals(runs[p].user, runs[p].calc)
           uid == 1
           row == IF r.commits = 1
                  THEN CommitRow(users[uid], runs[p].user, r.user)
                  ELSE users[uid]
       IN  /\ users' = [users EXCEPT ![uid] = row]
           /\ runs' = [runs EXCEPT
                         ![p].phase = "idle",
                         ![p].wrote =
                             IF r.commits = 1
                             THEN [some |-> TRUE, overlapped |-> runs[p].overlapped,
                                   loaded |-> runs[p].user,
                                   before |-> users[runs[p].uid], after |-> row]
                             ELSE @]
    /\ UNCHANGED <<user, daily_stats, weight_entries, calc, ret, commits>>
    /\ UNCHANGED <<meals, reqs>>

\* the sequence of process p ends: update_user_goals on its copy of the
\* user and its estimate; wrote records the last accepted write
Persist(p) ==
    /\ runs[p].phase = "estimated"
    /\ LET r   == update_user_goals(runs[p].user, runs[p].calc)
           uid == runs[p].uid
           row == IF r.commits = 1
                  THEN CommitRow(users[uid], runs[p].user, r.user)
                  ELSE users[uid]
       IN  /\ users' = [users EXCEPT ![uid] = row]
           /\ runs' = [runs EXCEPT
                         ![p].phase = "idle",
                         ![p].wrote =
                             IF r.commits = 1
                             THEN [some |-> TRUE, overlapped |-> runs[p].overlapped,
                                   loaded |-> runs[p].user,
                                   before |-> users[runs[p].uid], after |-> row]
                             ELSE @]
    /\ UNCHANGED <<user, daily_stats, weight_entries, calc, ret, commits>>
    /\ UNCHANGED <<meals, reqs>>

----------------------------------------------------------------------------
(* MealService: the meals of one user and the DailyStats rows derived from *)
(* them.  daily_stats is the table in insertion order; of a row only date  *)
(* and consumed_calories are modelled.  Every query and every db.commit()  *)
(* is one step, so requests of two processes interleave between them.      *)

MaxMeals == 2

Dates == {1, 2}

MealIds == 1..MaxMeals

\* the total of a created meal: the sum over its foods
MealCalories == {300}

NoMeal == [state |-> "free", date |-> 0, total_calories |-> 0]

IdleReq ==
    [op |-> "none", pc |-> "idle", target_date |-> 0, calories |-> 0, found |-> 0]

\* func.sum(Meal.total_calories) over the user's meals of the date, or 0
DayCalories(date) ==
    LET on == {id \in MealIds : meals[id].state = "live" /\ meals[id].date = date}
        RECURSIVE Total(_)
        Total(S) == IF S = {} THEN 0
                    ELSE LET id == CHOOSE x \in S : TRUE
                         IN  meals[id].total_calories + Total(S \ {id})
    IN  Total(on)

\* query(DailyStats).filter(user_id, date).first(): the position of the
\* first row of the date, 0 when there is none
FirstStat(date) ==
    IF \E i \in 1..Len(daily_stats) : daily_stats[i].date = date
    THEN CHOOSE i \in 1..Len(daily_stats) :
             /\ daily_stats[i].date = date
             /\ \A j \in 1..(i - 1) : daily_stats[j].date # date
    ELSE 0

MealFrame == UNCHANGED <<user, weight_entries, calc, ret, commits, users, runs>>

\* create_meal up to its db.commit(); _update_daily_stats follows
CreateMeal(p, date, total_calories) ==
    /\ reqs[p].pc = "idle"
    /\ \E id \in MealIds :
           /\ meals[id].state = "free"
           /\ \A j \in 1..(id - 1) : meals[j].state # "free"
           /\ meals' = [meals EXCEPT ![id] = [state |-> "live", date |-> date,
                                              total_calories |-> total_calories]]
    /\ reqs' = [reqs EXCEPT ![p] = [IdleReq EXCEPT !.op = "create_meal",
                                                   !.pc = "totals",
                                                   !.target_date = date]]
    /\ UNCHANGED daily_stats
    /\ MealFrame

\* update_meal up to its db.commit(): eaten_at is set when the body has it
\* (date 0: not in the body); returns None when the meal is not found
UpdateMeal(p, meal_id, date) ==
    /\ reqs[p].pc = "idle"
    /\ IF meals[meal_id].state # "live"
       THEN /\ reqs' = [reqs EXCEPT ![p] = IdleReq]
            /\ UNCHANGED meals
       ELSE LET eaten == IF date = 0 THEN meals[meal_id].date ELSE date
            IN  /\ meals' = [meals EXCEPT ![meal_id].date = eaten]
                /\ reqs' = [reqs EXCEPT ![p] = [IdleReq EXCEPT !.op = "update_meal",
                                                               !.pc = "totals",
                                                               !.target_date = eaten]]
    /\ UNCHANGED daily_stats
    /\ MealFrame

\* delete_meal up to its db.commit(); returns False when the meal is not found
DeleteMeal(p, meal_id) ==
    /\ reqs[p].pc = "idle"
    /\ IF meals[meal_id].state # "live"
       THEN /\ reqs' = [reqs EXCEPT ![p] = IdleReq]
            /\ UNCHANGED meals
       ELSE /\ meals' = [meals EXCEPT ![meal_id].state = "deleted"]
            /\ reqs' = [reqs EXCEPT ![p] = [IdleReq EXCEPT
                                               !.op = "delete_meal",
                                               !.pc = "totals",
                                               !.target_date = meals[meal_id].date]]
    /\ UNCHANGED daily_stats
    /\ MealFrame

\* _update_daily_stats, lines 313-325: the totals of the day
ReadTotals(p) ==
    /\ reqs[p].pc = "totals"
    /\ reqs' = [reqs EXCEPT ![p].calories = DayCalories(reqs[p].target_date),
                            ![p].pc = "find"]
    /\ UNCHANGED <<daily_stats, meals>>
    /\ MealFrame

\* _update_daily_stats, lines 328-330: look the row up
FindStat(p) ==
    /\ reqs[p].pc = "find"
    /\ reqs' = [reqs EXCEPT ![p].found = FirstStat(reqs[p].target_date),
                            ![p].pc = "write"]
    /\ UNCHANGED <<daily_stats, meals>>
    /\ MealFrame

\* _update_daily_stats, lines 332-349: create the row when none was found,
\* set its values, commit
WriteStat(p) ==
    /\ reqs[p].pc = "write"
    /\ daily_stats' =
           IF reqs[p].found = 0
           THEN Append(daily_stats, [date |-> reqs[p].target_date,
                                     consumed_calories |-> reqs[p].calories])
           ELSE [daily_stats EXCEPT
                    ![reqs[p].found].consumed_calories = reqs[p].calories]
    /\ reqs' = [reqs EXCEPT ![p] = IdleReq]
    /\ UNCHANGED meals
    /\ MealFrame

----------------------------------------------------------------------------
(* Specifications *)

\* The service: a registered user with histories; goals are set up, the
\* profile edited, estimates computed and offered to the update gate.
GoalInputs == {"lose_weight", "maintain", "gain_weight", "gain_muscle"}

TargetInputs == {None, Num(1800), Num(2150)}

ServiceIntake ==
    { Intake(2200, 20, 0, 2200, 0), Intake(2000, 10, 0, 2400, 10),
      Intake(2200, 13, 1, 2200, 0), Intake(2200, 13, 0, 2200, 0) }

ServiceWeights ==
    { Weights(0, Num(0), Num(0), FALSE),
      Weights(MaxWeights, Rat(-1, 14), Num(0), FALSE),
      Weights(14, Rat(1, 14), Num(0), FALSE),
      Weights(14, Rat(-1, 10), Rat(3, 10), FALSE),
      Weights(1, Num(0), Num(0), FALSE) }

Init ==
    /\ user \in Profiles
    /\ daily_stats \in ServiceIntake
    /\ weight_entries \in ServiceWeights
    /\ calc = NoCalc
    /\ ret = NoRet
    /\ commits = 0
    /\ Quiet

Next ==
    \/ CalculateAdaptiveTdee
    \/ UpdateUserGoals
    \/ \E goal \in GoalInputs, custom \in {None, Num(2500)} : SetupGoals(goal, custom)
    \/ \E target \in TargetInputs : UpdateProfile(target)

Spec == Init /\ [][Next]_vars

\* calculate_adaptive_tdee as a function of its arguments
InitTdee ==
    /\ \E p \in Profiles, prev \in PrevTdees :
           user = [p EXCEPT !.estimated_tdee = prev]
    /\ daily_stats \in IntakeHistories
    /\ weight_entries \in WeightHistories
    /\ calc = NoCalc
    /\ ret = NoRet
    /\ commits = 0
    /\ Quiet

NextTdee == CalculateAdaptiveTdee

SpecTdee == InitTdee /\ [][NextTdee]_vars

\* The goal translator and the update gate as functions of their arguments
MaxTdee == 3000

GoalValues == GoalInputs \cup {"None", "keto"}

TdeePoints ==
    { t \in 1..MaxTdee :
        \/ t % 100 = 0
        \/ t \in {1, 923, 924, 950, 951, 952, 999, 1001, 1199, 1201, 1666, 1667,
                  1714, 1715, 1899, 1901, 2004, 2099, 2101, 2104, 2105, MaxTdee} }

\* whole calories, and half calories next to the limits of the translator
TdeeInputs ==
    {Num(t) : t \in TdeePoints}
        \cup {Rat(2 * t + 1, 2) : t \in {923, 951, 999, 1199, 1714, 2000, MaxTdee}}

ConfInputs ==
    { Conf((3 * CScale) \div 10), Conf(((7 * CScale) \div 10) - 1),
      Conf((7 * CScale) \div 10), Conf(CScale), NaN }

InitPure ==
    /\ \E p \in Profiles, g \in GoalValues, prev \in PrevTdees :
           /\ p.gender = "male"
           /\ user = [p EXCEPT !.goal = g, !.estimated_tdee = prev]
    /\ daily_stats = <<>>
    /\ weight_entries = <<>>
    /\ calc = NoCalc
    /\ ret = NoRet
    /\ commits = 0
    /\ Quiet

NextPure ==
    \/ \E new_tdee \in TdeeInputs, confidence \in ConfInputs :
           ShouldUpdateGoals(new_tdee, confidence)
    \/ \E estimated_tdee \in TdeeInputs : CalculateAdaptiveCalories(estimated_tdee)

SpecPure == InitPure /\ [][NextPure]_vars

\* The feedback loop: a user whose goals nobody sets by hand; estimates are
\* computed and offered to the gate while the histories grow
InitLoop ==
    /\ user \in Profiles
    /\ daily_stats = Intake(2200, 20, 0, 2200, 0)
    /\ weight_entries \in { Weights(14, Rat(-1, 14), Num(0), FALSE),
                            Weights(14, Rat(1, 14), Num(0), FALSE) }
    /\ calc = NoCalc
    /\ ret = NoRet
    /\ commits = 0
    /\ Quiet

NextLoop ==
    \/ CalculateAdaptiveTdee
    \/ UpdateUserGoals
    \/ \E c \in {2200, 2600}, step \in {Rat(-1, 14), Rat(1, 14)} : LogPeriod(c, step)

SpecLoop == InitLoop /\ [][NextLoop]_vars

\* Two processes running estimate-and-persist sequences, for the same user
\* or for two users
InitConc ==
    /\ \E prev1 \in {None, Num(3000)}, prev2 \in {None, Num(2000)} :
           users = [uid \in UserIds |->
                      IF uid = 1
                      THEN [NewUser(Num(30), "male", Num(175), "moderate", "maintain")
                              EXCEPT !.estimated_tdee = prev1]
                      ELSE [NewUser(None, "female", Num(160), "None", "lose_weight")
                              EXCEPT !.estimated_tdee = prev2]]
    /\ \E uid2 \in UserIds : runs = [p \in Procs |-> IdleRun(IF p = 1 THEN 1 ELSE uid2)]
    /\ daily_stats = Intake(2200, 20, 0, 2200, 0)
    /\ weight_entries \in { Weights(14, Rat(-1, 14), Num(0), FALSE),
                            Weights(14, Rat(1, 14), Num(0), FALSE) }
    /\ user = NewUser(None, "None", None, "None", "None")
    /\ calc = NoCalc
    /\ ret = NoRet
    /\ commits = 0
    /\ meals = <<>>
    /\ reqs = <<>>

NextConc ==
    \/ \E p \in Procs : Estimate(p)
    \/ \E p \in Procs : Persist(p)

SpecConc == InitConc /\ [][NextConc]_vars

\* The meal service of one user: no meal and no DailyStats row at the start
InitMeals ==
    /\ user = NewUser(Num(30), "male", Num(175), "moderate", "maintain")
    /\ daily_stats = <<>>
    /\ weight_entries = <<>>
    /\ calc = NoCalc
    /\ ret = NoRet
    /\ commits = 0
    /\ users = <<>>
    /\ runs = <<>>
    /\ meals = [id \in MealIds |-> NoMeal]
    /\ reqs = [p \in Procs |-> IdleReq]

MealRequests(p) ==
    \/ \E date \in Dates, total_calories \in MealCalories :
           CreateMeal(p, date, total_calories)
    \/ \E meal_id \in MealIds, date \in Dates \cup {0} : UpdateMeal(p, meal_id, date)
    \/ \E meal_id \in MealIds : DeleteMeal(p, meal_id)
    \/ ReadTotals(p)
    \/ FindStat(p)
    \/ WriteStat(p)

\* requests served by two processes
NextMeals == \E p \in Procs : MealRequests(p)

SpecMeals == InitMeals /\ [][NextMeals]_vars

\* requests served one at a time
NextMealsSerial == MealRequests(1)

SpecMealsSerial == InitMeals /\ [][NextMealsSerial]_vars

\* The baseline, the trend estimator and the pure calls of the engine as
\* functions of their arguments: every profile with empty histories, and a
\* few profiles with weight histories of every shape
ProfileInputs ==
    { NewUser(age, gender, height, activity_level, "maintain") :
        age \in {None, Num(0), Num(30), Num(31)},
        gender \in {"None", "male", "female", "other"},
        height \in {None, Num(175), Num(176)},
        activity_level \in {"None", "sedentary", "light", "moderate", "active",
                            "very_active", "athlete"} }

MaxSeries == 20

BaseWeights ==
    { Weights(len, step, zig, FALSE) :
        len \in {0, 1, 2, 3, MaxSeries},
        step \in {Rat(-1, 10), Num(0), Rat(1, 14)},
        zig \in {Num(0), Rat(3, 10)} }

BaseIntake == {<<>>, Intake(2200, 14, 0, 2200, 0)}

WeightInputs == {Num(70), Num(80), Rat(161, 2), Num(81)}

DaysInputs == {0, 1, 2, 14, 30}

InitBase ==
    /\ \/ /\ user \in ProfileInputs
          /\ daily_stats = <<>>
          /\ weight_entries = <<>>
       \/ /\ \E p \in Profiles, prev \in {None, Num(2000)} :
                 user = [p EXCEPT !.estimated_tdee = prev]
          /\ daily_stats \in BaseIntake
          /\ weight_entries \in BaseWeights
    /\ calc = NoCalc
    /\ ret = NoRet
    /\ commits = 0
    /\ Quiet

NextBase ==
    \/ CalculateAdaptiveTdee
    \/ \E weight \in WeightInputs : CalculateBmr(weight)
    \/ \E weight \in WeightInputs : CalculateTraditionalTdee(weight)
    \/ \E days \in DaysInputs : AnalyzeWeightTrend(days)
    \/ \E new_tdee \in {Num(2000), Num(2100), Num(2101)},
          confidence \in {Conf((4 * CScale) \div 10), Conf(CScale), NaN} :
           ShouldUpdateGoals(new_tdee, confidence)

SpecBase == InitBase /\ [][NextBase]_vars

----------------------------------------------------------------------------
(* Properties *)

\* what the last calculate_adaptive_tdee call analysed
RecentStats == LastN(daily_stats, 30)

ValidCount == Cardinality({i \in 1..Len(RecentStats) : RecentStats[i].consumed_calories > 0})

AnalysedTrend == analyze_weight_trend(LastN(weight_entries, recent_window), trend_days)

AnalysedBalance == EnergyBalance(SelectSeq(RecentStats, IsValidDay), AnalysedTrend.trend)

\* C1: an adaptive estimate returned for a user with a previous TDEE differs
\* from the previous TDEE by at most 15% of it (the returned, rounded value)
C1_SmoothingInvariant ==
    (calc.method = "adaptive" /\ Truthy(user.estimated_tdee))
        => RLe(RAbs(RSub(calc.estimated_tdee, user.estimated_tdee)),
               RMul(Rat(15, 100), user.estimated_tdee))

\* C2: with fewer than 14 logged (consumed_calories > 0) records among those
\* analysed, the method is traditional or traditional_fallback, never adaptive
C2_NeverAdaptiveBelow14 ==
    (calc.method # "none" /\ ValidCount < 14)
        => calc.method \in {"traditional", "traditional_fallback"}

C2_Witness ==
    /\ calc.method = "traditional_fallback"
    /\ Len(daily_stats) > 30
    /\ ValidCount = 13

\* C3: method by data sufficiency, in order: fewer than 14 records in total
\* -> traditional, 0.3, {insufficient_data}; else fewer than 14 logged records
\* among the last 30 -> traditional_fallback, 0.4, {insufficient_valid_days};
\* else adaptive.  The fallbacks return the traditional TDEE at the most
\* recent weight observation
C3_MethodSelection ==
    calc.method # "none" =>
        LET last_weight == weight_entries[Len(weight_entries)].weight
        IN  IF Len(daily_stats) < 14
            THEN /\ calc.method = "traditional"
                 /\ calc.confidence = Conf((3 * CScale) \div 10)
                 /\ calc.factors = <<"insufficient_data">>
                 /\ weight_entries # <<>> =>
                        calc.estimated_tdee = calculate_traditional_tdee(user, last_weight)
            ELSE IF ValidCount < 14
            THEN /\ calc.method = "traditional_fallback"
                 /\ calc.confidence = Conf((4 * CScale) \div 10)
                 /\ calc.factors = <<"insufficient_valid_days">>
                 /\ weight_entries # <<>> =>
                        calc.estimated_tdee = calculate_traditional_tdee(user, last_weight)
            ELSE calc.method = "adaptive"

C3_Witness ==
    /\ calc.method = "traditional_fallback"
    /\ Len(daily_stats) >= 14
    /\ weight_entries # <<>>
    /\ \E i \in 1..Len(daily_stats) : daily_stats[i].consumed_calories = 0

C5_WriteOnlyWhenAccepted ==
    [][UpdateUserGoals =>
        IF should_update_goals(user, calc.estimated_tdee, calc.confidence)
        THEN /\ commits' = 1
             /\ ret'.update.some
             /\ ret'.update.new_tdee = calc.estimated_tdee
        ELSE /\ commits' = 0
             /\ ~ret'.update.some
             /\ user'.estimated_tdee = user.estimated_tdee
             /\ user'.tdee_confidence = user.tdee_confidence
             /\ user'.adaptive_calories = user.adaptive_calories
             /\ user'.target_calories = user.target_calories]_vars

\* a rejected adaptive estimate that differs from the persisted TDEE
C5_Witness ==
    /\ ret.op = "update_user_goals"
    /\ ~ret.accepted
    /\ commits = 0
    /\ calc.method = "adaptive"
    /\ Truthy(user.estimated_tdee)
    /\ calc.estimated_tdee # user.estimated_tdee

\* C6: an accepted update persists the new TDEE, confidence and adaptive
\* target, and overwrites target_calories exactly when the user had none or
\* the target before the call is within 50 kcal of the adaptive value
\* persisted before the call
C6_TargetFollowsPreviousAdaptive ==
    [][(UpdateUserGoals
            /\ should_update_goals(user, calc.estimated_tdee, calc.confidence)) =>
        LET new_calories == calculate_adaptive_calories(user, calc.estimated_tdee)
            previous     == IF IsNone(user.adaptive_calories) THEN Num(0)
                            ELSE user.adaptive_calories
            overwrite    ==
                \/ ~Truthy(user.target_calories)
                \/ RLt(RAbs(RSub(user.target_calories, previous)), Num(50))
        IN  /\ user'.estimated_tdee = calc.estimated_tdee
            /\ user'.tdee_confidence = calc.confidence
            /\ user'.adaptive_calories = new_calories
            /\ user'.target_calories =
                   IF overwrite THEN new_calories ELSE user.target_calories]_vars

ClaimedOffset(goal) ==
    CASE goal = "lose_weight" -> -500
      [] goal = "maintain"    -> 0
      [] goal = "gain_weight" -> 300
      [] goal = "gain_muscle" -> 200
      [] OTHER                -> 0

\* C8: when TDEE + offset lies inside [max(1200, 0.7 * TDEE), 1.3 * TDEE] the
\* target is TDEE + offset rounded to the nearest calorie, with offset -500,
\* 0, +300, +200 by goal and 0 for an unknown or missing goal
C8_GoalOffsets ==
    ret.op = "calculate_adaptive_calories" =>
        LET t      == ret.new_tdee
            wanted == RAdd(t, Num(ClaimedOffset(user.goal)))
        IN  (/\ RLe(RMax(Num(1200), RMul(Rat(7, 10), t)), wanted)
             /\ RLe(wanted, RMul(Rat(13, 10), t)))
                => ret.calories = Num(Round(wanted))

C8_Witness ==
    /\ ret.op = "calculate_adaptive_calories"
    /\ user.goal = "gain_muscle"
    /\ ret.new_tdee = Num(2000)
    /\ ret.calories = Num(2200)

\* C9: in the adaptive path the estimate before smoothing is above the average
\* logged intake when the weekly trend is negative and below it when the trend
\* is positive
C9_EnergyBalanceSign ==
    calc.method = "adaptive" =>
        /\ AnalysedTrend.trend.n < 0 =>
               RLt(AnalysedBalance.avg_calories, AnalysedBalance.estimated_tdee)
        /\ AnalysedTrend.trend.n > 0 =>
               RLt(AnalysedBalance.estimated_tdee, AnalysedBalance.avg_calories)

\* scenario 2: 20 logged days averaging 2200 kcal, trend -0.5 kg/week, no
\* previous TDEE, estimate computed
Scenario2 ==
    /\ calc.method # "none"
    /\ IsNone(user.estimated_tdee)
    /\ ValidCount = 20
    /\ Len(RecentStats) = 20
    /\ AnalysedBalance.avg_calories = Num(2200)
    /\ AnalysedTrend.trend = Rat(-1, 2)

C11_ClampValueAndTag ==
    (calc.method = "adaptive" /\ Truthy(user.estimated_tdee)
        /\ user.estimated_tdee.n > 0) =>
        LET prev == user.estimated_tdee
            raw  == AnalysedBalance.estimated_tdee
        IN  IF RLt(RMul(prev, Rat(15, 100)), RAbs(RSub(raw, prev)))
            THEN /\ calc.estimated_tdee =
                        Num(Round(RMul(prev, IF RLt(prev, raw) THEN Rat(115, 100)
                                             ELSE Rat(85, 100))))
                 /\ Contains(calc.factors, "smoothed_change")
            ELSE /\ calc.estimated_tdee = Num(Round(raw))
                 /\ ~Contains(calc.factors, "smoothed_change")

\* previous 2000 and a raw estimate of 2500: 2300 with smoothed_change
C11_Witness ==
    /\ calc.method = "adaptive"
    /\ user.estimated_tdee = Num(2000)
    /\ AnalysedBalance.estimated_tdee = Num(2500)
    /\ calc.estimated_tdee = Num(2300)
    /\ Contains(calc.factors, "smoothed_change")

\* C12: every estimate returned by calculate_adaptive_tdee, on the
\* traditional, traditional_fallback and adaptive paths alike, has a
\* whole-number estimated_tdee
C12_WholeCalories ==
    calc.method # "none" =>
        (calc.estimated_tdee.d = 1 /\ calc.estimated_tdee.n >= 0)

\* C13: every returned confidence is a defined number in [0, 1], also when
\* all weights are equal, all intake values are equal or the mean intake is 0
C13_ConfidenceDefined ==
    calc.method # "none" =>
        /\ ~calc.confidence.nan
        /\ calc.confidence.v >= 0
        /\ calc.confidence.v <= CScale

\* C14: with empty intake and weight histories, for every profile (missing
\* age, height, sex or activity level included), calculate_adaptive_tdee
\* returns method traditional, confidence 0.3, the single factor
\* insufficient_data and the traditional TDEE at the default weight of 70 kg
C14_Scenario3 ==
    (calc.method # "none" /\ daily_stats = <<>> /\ weight_entries = <<>>) =>
        /\ calc.method = "traditional"
        /\ calc.confidence = Conf((3 * CScale) \div 10)
        /\ calc.factors = <<"insufficient_data">>
        /\ calc.estimated_tdee = calculate_traditional_tdee(user, Num(70))

\* a profile without age and activity level: 1800 * 1.55 = 2790
C14_Witness ==
    /\ calc.method = "traditional"
    /\ daily_stats = <<>>
    /\ weight_entries = <<>>
    /\ IsNone(user.age)
    /\ user.activity_level = "None"
    /\ calc.estimated_tdee = Num(2790)

\* C15: with fewer than 2 weight observations analyze_weight_trend returns
\* exactly (0.0, 0.0) for every window size
C15_TrendNeedsTwo ==
    (ret.op = "analyze_weight_trend" /\ Len(weight_entries) < 2) =>
        ret.trend = [trend |-> Num(0),
                     confidence |-> [nan |-> FALSE, q |-> Num(0)]]

\* a single observation, analysed with a window of 30
C15_Witness ==
    /\ ret.op = "analyze_weight_trend"
    /\ Len(weight_entries) = 1
    /\ ret.days = 30
    /\ ret.trend.trend = Num(0)
    /\ ret.trend.confidence.q = Num(0)

\* the weights advance by the same step between consecutive observations
\* and the dates ascend
IsLinear(entries, step) ==
    \A i \in 2..Len(entries) :
        /\ entries[i].weight = RAdd(entries[i - 1].weight, step)
        /\ entries[i].date > entries[i - 1].date

\* C16: for a perfectly linear series of at least 2 observations with a
\* non-zero step d and ascending dates, analyze_weight_trend returns the
\* trend 7 * d and confidence 1.0 (for every window that keeps at least 2
\* observations, the default of 14 included)
C16_LinearSeries ==
    (/\ ret.op = "analyze_weight_trend"
     /\ Len(weight_entries) >= 2
     /\ ret.days # 1) =>
        LET d == RSub(weight_entries[2].weight, weight_entries[1].weight)
        IN  (d.n # 0 /\ IsLinear(weight_entries, d)) =>
                /\ ret.trend.trend = RMul(Num(7), d)
                /\ ret.trend.confidence = [nan |-> FALSE, q |-> Num(1)]

\* 0.1 kg lost per day over 20 days, default window: -0.7 kg/week, 1.0
C16_Witness ==
    /\ ret.op = "analyze_weight_trend"
    /\ ret.days = 14
    /\ Len(weight_entries) = 20
    /\ IsLinear(weight_entries, Rat(-1, 10))
    /\ ret.trend.trend = Rat(-7, 10)
    /\ ret.trend.confidence = [nan |-> FALSE, q |-> Num(1)]

\* a valid profile: age an integer >= 0, height > 0, sex and activity set
ValidProfile(u) ==
    /\ ~IsNone(u.age) /\ u.age.d = 1 /\ u.age.n >= 0
    /\ ~IsNone(u.height) /\ u.height.n > 0
    /\ u.gender # "None"
    /\ u.activity_level # "None"

\* C17: for a valid profile calculate_traditional_tdee is, the other
\* parameters fixed, strictly increasing in weight, strictly increasing in
\* height and strictly decreasing in age
C17_Monotone ==
    (ret.op = "calculate_traditional_tdee" /\ ValidProfile(user)) =>
        /\ \A w2 \in WeightInputs :
               RLt(ret.weight, w2) =>
                   RLt(ret.value, calculate_traditional_tdee(user, w2))
        /\ \A h2 \in {Num(175), Num(176)} :
               RLt(user.height, h2) =>
                   RLt(ret.value,
                       calculate_traditional_tdee([user EXCEPT !.height = h2],
                                                  ret.weight))
        /\ \A a2 \in {Num(0), Num(30), Num(31)} :
               RLt(user.age, a2) =>
                   RLt(calculate_traditional_tdee([user EXCEPT !.age = a2],
                                                  ret.weight),
                       ret.value)

\* the BMR and the multiplier as the claim C18 states them
ClaimedBmr(u, w) ==
    IF IsNone(u.age) \/ IsNone(u.height) \/ u.gender = "None"
    THEN Num(1800)
    ELSE RAdd(RSub(RAdd(RMul(Num(10), w), RMul(Rat(625, 100), u.height)),
                   RMul(Num(5), u.age)),
              IF u.gender = "male" THEN Num(5) ELSE Num(-161))

ClaimedMultiplier(activity_level) ==
    CASE activity_level = "sedentary"   -> Rat(120, 100)
      [] activity_level = "light"       -> Rat(1375, 1000)
      [] activity_level = "moderate"    -> Rat(155, 100)
      [] activity_level = "active"      -> Rat(1725, 1000)
      [] activity_level = "very_active" -> Rat(190, 100)
      [] OTHER                          -> Rat(155, 100)

\* C18: calculate_traditional_tdee returns BMR * multiplier, the BMR being
\* the Mifflin-St Jeor value whenever age, height and sex are present (age 0
\* counts as present) and 1800 only when one of them is missing, the
\* multiplier being the table value, 1.55 for an unknown or missing level
C18_BaselineFormula ==
    ret.op = "calculate_traditional_tdee" =>
        ret.value = RMul(ClaimedBmr(user, ret.weight),
                         ClaimedMultiplier(user.activity_level))

\* the profile of scenario 1 at 80 kg
Scenario1 ==
    /\ user.age = Num(30)
    /\ user.height = Num(175)
    /\ user.gender = "male"
    /\ user.activity_level = "moderate"
    /\ ret.weight = Num(80)

\* C19: in scenario 1 calculate_bmr returns 1737.5 and
\* calculate_traditional_tdee returns 1737.5 * 1.55, about 2693
C19_Scenario1 ==
    /\ (ret.op = "calculate_bmr" /\ Scenario1) => ret.value = Rat(17375, 10)
    /\ (ret.op = "calculate_traditional_tdee" /\ Scenario1) =>
           /\ ret.value = RMul(Rat(17375, 10), Rat(155, 100))
           /\ Round(ret.value) = 2693

\* C19, amended: in scenario 1 calculate_bmr returns 1748.75 and
\* calculate_traditional_tdee returns 1748.75 * 1.55 = 2710.5625, about 2711
C19_Scenario1Amended ==
    /\ (ret.op = "calculate_bmr" /\ Scenario1) => ret.value = Rat(174875, 100)
    /\ (ret.op = "calculate_traditional_tdee" /\ Scenario1) =>
           /\ ret.value = RMul(Rat(174875, 100), Rat(155, 100))
           /\ Round(ret.value) = 2711

C19_Witness ==
    /\ ret.op = "calculate_traditional_tdee"
    /\ Scenario1
    /\ ret.value = Rat(27105625, 10000)

FlatWindow(entries, days) ==
    LET df == TrendWindow(entries, days)
    IN  /\ Len(df) >= 2
        /\ \A i \in 1..Len(df) : df[i].weight = df[1].weight

\* C23: for a window of at least 2 observations whose weights are all equal
\* analyze_weight_trend returns trend 0 with the sentinel confidence 0, a
\* defined confidence in [0, 1]
C23_FlatWindowGuarded ==
    (ret.op = "analyze_weight_trend" /\ FlatWindow(weight_entries, ret.days)) =>
        /\ ret.trend.trend = Num(0)
        /\ ~ret.trend.confidence.nan
        /\ ret.trend.confidence.q = Num(0)

\* the trend over all of the 30 most recent observations
FullWindowTrend == analyze_weight_trend(LastN(weight_entries, 30), 30)

\* C24: on the adaptive path the weight trend and its confidence are fitted
\* over the 30 most recent weight observations (all of them when there are
\* fewer): the estimate and its confidence are the ones that fit yields
C24_ThirtyObservations ==
    (calc.method = "adaptive" /\ ~Truthy(user.estimated_tdee)) =>
        LET valid_days == SelectSeq(RecentStats, IsValidDay)
        IN  /\ calc.estimated_tdee =
                   Num(Round(EnergyBalance(valid_days,
                                           FullWindowTrend.trend).estimated_tdee))
            /\ calc.confidence =
                   TotalConfidence(FullWindowTrend.confidence, valid_days,
                                   RecentStats)

\* C28: update_user_goals never persists an estimate of method traditional
\* or traditional_fallback (confidence 0.3 and 0.4 are below the threshold
\* 0.7, also on cold start): every accepted update is of an adaptive estimate
C28_OnlyAdaptivePersisted ==
    (ret.op = "update_user_goals" /\ ret.accepted) => calc.method = "adaptive"

\* a traditional estimate offered for a user without a TDEE, and rejected
C28_Witness ==
    /\ ret.op = "update_user_goals"
    /\ calc.method = "traditional"
    /\ ret.confidence = Conf((3 * CScale) \div 10)
    /\ ~Truthy(user.estimated_tdee)
    /\ ~ret.accepted
    /\ commits = 0

\* C29: with fewer than 2 weight observations and at least 14 valid days the
\* method is adaptive with weight trend 0: the unsmoothed estimate is the
\* mean calories of the valid days, stable_weight is a factor, the
\* confidence is at most 0.6 and update_user_goals rejects the estimate
C29_NoWeightsNeverPersisted ==
    (calc.method # "none" /\ Len(weight_entries) < 2 /\ ValidCount >= 14) =>
        LET valid_days == SelectSeq(RecentStats, IsValidDay)
        IN  /\ calc.method = "adaptive"
            /\ AnalysedTrend.trend = Num(0)
            /\ AnalysedBalance.estimated_tdee =
                   Rat(SumSeq([i \in 1..Len(valid_days) |->
                                  valid_days[i].consumed_calories]),
                       Len(valid_days))
            /\ Contains(calc.factors, "stable_weight")
            /\ ~calc.confidence.nan
            /\ 10 * calc.confidence.v <= 6 * CScale
            /\ (ret.op = "update_user_goals") => (~ret.accepted /\ commits = 0)

\* 20 days of 2200 kcal and no weights, offered on cold start and rejected
C29_Witness ==
    /\ calc.method = "adaptive"
    /\ weight_entries = <<>>
    /\ ValidCount = 20
    /\ calc.estimated_tdee = Num(2200)
    /\ ret.op = "update_user_goals"
    /\ ~Truthy(user.estimated_tdee)
    /\ ~ret.accepted

\* the estimate in hand is the one calculate_adaptive_tdee returns now
FreshCalc == calc = calculate_adaptive_tdee(user, daily_stats, weight_entries)

\* C26: repeating calculate_adaptive_tdee and update_user_goals on fixed
\* histories that give an adaptive estimate of confidence >= 0.7, every
\* accepted update moves the persisted TDEE by at most 15% of its value
C26_StepWithin15 ==
    [][(/\ UpdateUserGoals
        /\ FreshCalc
        /\ calc.method = "adaptive"
        /\ ~calc.confidence.nan
        /\ 10 * calc.confidence.v >= 7 * CScale
        /\ Truthy(user.estimated_tdee)
        /\ ret'.accepted) =>
            RLe(RAbs(RSub(user'.estimated_tdee, user.estimated_tdee)),
                RMul(Rat(15, 100), user.estimated_tdee))]_vars

\* C27: for a user whose target_calories is written by update_user_goals
\* only, after every accepted update target_calories equals
\* adaptive_calories
C27_TargetTracksAdaptive ==
    (ret.op = "update_user_goals" /\ ret.accepted) =>
        user.target_calories = user.adaptive_calories

\* the row a lone sequence starting from row u leaves behind
AloneResult(u) ==
    update_user_goals(u, calculate_adaptive_tdee(u, daily_stats, weight_entries)).user

\* C21: sequences for different users interleave freely: a sequence never
\* writes another user's row, and the row it leaves behind is the one it
\* would leave when run alone from the row it found
C21_UsersIsolated ==
    [][(runs # <<>> /\ runs[1].uid # runs[2].uid) =>
        \A p \in Procs :
            LET uid == runs[p].uid
            IN  /\ (runs[p].phase = "idle" /\ runs'[p].phase = "estimated") =>
                       users' = users
                /\ (runs[p].phase = "estimated" /\ runs'[p].phase = "idle") =>
                       /\ users'[uid] = AloneResult(users[uid])
                       /\ \A v \in UserIds \ {uid} : users'[v] = users[v]]_vars

\* user 1 was written while the sequence of user 2 was in flight, and user
\* 2's sequence has written as well
C21_Witness ==
    /\ runs # <<>>
    /\ runs[1].uid # runs[2].uid
    /\ runs[1].wrote.some
    /\ runs[2].wrote.some
    /\ runs[2].phase = "estimated"
    /\ users[1].estimated_tdee = Num(2550)
    /\ users[2].estimated_tdee = Num(1700)

\* C22: a write of a sequence during which no other sequence of the same
\* user was in flight was computed from the row it overwrites: smoothed and
\* gated against the persisted TDEE it replaces
C22_SerialWritesAreFresh ==
    \A p \in DOMAIN runs :
        (runs[p].wrote.some /\ ~runs[p].wrote.overlapped) =>
            /\ runs[p].wrote.loaded = runs[p].wrote.before
            /\ runs[p].wrote.after = AloneResult(runs[p].wrote.before)

\* two sequences of one user interleaved: a write computed from a stale
\* persisted TDEE has replaced a newer one
C22_Witness ==
    \E p \in DOMAIN runs :
        /\ runs[p].wrote.some
        /\ runs[p].wrote.overlapped
        /\ Truthy(runs[p].wrote.loaded.estimated_tdee)
        /\ runs[p].wrote.loaded.estimated_tdee # runs[p].wrote.before.estimated_tdee
        /\ runs[p].wrote.after.estimated_tdee # runs[p].wrote.before.estimated_tdee
        /\ runs[p].wrote.after # AloneResult(runs[p].wrote.before)

\* C25: after any create_meal, update_meal and delete_meal calls, also
\* interleaved ones for the same user and date, there is at most one
\* DailyStats row per date
C25_OneRowPerDate ==
    \A i, j \in 1..Len(daily_stats) :
        daily_stats[i].date = daily_stats[j].date => i = j

\* C30: after any sequence of create_meal, update_meal and delete_meal calls
\* every DailyStats row has consumed_calories equal to the sum of
\* total_calories of the meals eaten on its date, 0 when none remains
C30_StatsMatchMeals ==
    (meals # <<>> /\ \A p \in DOMAIN reqs : reqs[p].pc = "idle") =>
        \A i \in 1..Len(daily_stats) :
            daily_stats[i].consumed_calories = DayCalories(daily_stats[i].date)

====
